---- MODULE Spec2Model ----
(***************************************************************************)
(* A model of the two-pass assembler of src/main.py: the label pass        *)
(* (pass1), the encoding pass (pass2) with the declarative command schemas *)
(* (Command.format), the signed 8-bit encoder (dec2comp8) and the driver   *)
(* (main) that writes the memory-initialisation file.                      *)
(*                                                                         *)
(* Python strings are TLA+ strings; TLC evaluates Len, \o, Head, Tail and   *)
(* SubSeq on them character by character.  Python lists are sequences,     *)
(* Python dictionaries are functions.                                      *)
(***************************************************************************)
EXTENDS Integers, Sequences, FiniteSets, TLC

VARIABLES
    source,         \* the token lines as tokenize returned them (never changed)
    tokens,         \* main's list `tokens`, mutated in place by pass1 and pass2
    labels,         \* main's dictionary `labels`
    argument_code,  \* main's list `argument_code`; <<>> while unassigned
    mif,            \* the strings written to the .mif file, in order
    mif_open,       \* whether main has opened the .mif file for writing
    pc,             \* position of main (or of the dec2comp8 call)
    d,              \* argument of a direct dec2comp8 call
    v               \* value returned by a direct dec2comp8 call

vars == <<source, tokens, labels, argument_code, mif, mif_open, pc, d, v>>

(***************************************************************************)
(* Bounds of the model.                                                    *)
(***************************************************************************)
MaxLen == 4       \* longest program of the general specification
MaxProg == 257    \* longest program of the long-program specification
MaxImm == 300     \* |d| of the direct dec2comp8 calls

(***************************************************************************)
(* Python built-ins used by the source.                                    *)
(***************************************************************************)
Min(a, b) == IF a < b THEN a ELSE b
Max(a, b) == IF a > b THEN a ELSE b

\* s[i] for a 0-based index i
CharAt(s, i) == SubSeq(s, i + 1, i + 1)

\* s[0:n], n possibly negative or beyond the end
SliceTo(s, n) ==
    IF n >= 0 THEN SubSeq(s, 1, Min(n, Len(s)))
    ELSE SubSeq(s, 1, Max(Len(s) + n, 0))

\* s.endswith(":")
endswith_colon(s) == Len(s) > 0 /\ CharAt(s, Len(s) - 1) = ":"

\* s.replace(":", "")
RECURSIVE replace_colon(_)
replace_colon(s) ==
    IF s = "" THEN ""
    ELSE (IF Head(s) = ":" THEN "" ELSE Head(s)) \o replace_colon(Tail(s))

LowerCase == "abcdefghijklmnopqrstuvwxyz"
UpperCase == "ABCDEFGHIJKLMNOPQRSTUVWXYZ"

UpChar(c) ==
    IF \E i \in 0..25 : CharAt(LowerCase, i) = c
    THEN CharAt(UpperCase, CHOOSE i \in 0..25 : CharAt(LowerCase, i) = c)
    ELSE c

\* s.upper()
RECURSIVE upper(_)
upper(s) == IF s = "" THEN "" ELSE UpChar(Head(s)) \o upper(Tail(s))

DecDigits == "0123456789"
IsDigit(c) == \E i \in 0..9 : CharAt(DecDigits, i) = c
DigitVal(c) == CHOOSE i \in 0..9 : CharAt(DecDigits, i) = c

RECURSIVE AllDigits(_)
AllDigits(s) == s = "" \/ (IsDigit(Head(s)) /\ AllDigits(Tail(s)))

RECURSIVE DigitsVal(_, _)
DigitsVal(s, acc) ==
    IF s = "" THEN acc ELSE DigitsVal(Tail(s), 10 * acc + DigitVal(Head(s)))

\* int(s) for the decimal words of the language: an optional '-' and digits.
\* ok = FALSE stands for the ValueError int raises.
int(s) ==
    LET neg == Len(s) > 0 /\ Head(s) = "-"
        body == IF neg THEN Tail(s) ELSE s
    IN  IF body = "" \/ ~AllDigits(body)
        THEN [ok |-> FALSE, n |-> 0]
        ELSE [ok |-> TRUE,
              n |-> IF neg THEN 0 - DigitsVal(body, 0) ELSE DigitsVal(body, 0)]

Abs(n) == IF n < 0 THEN 0 - n ELSE n

\* n.bit_length()
RECURSIVE BitLenNat(_)
BitLenNat(n) == IF n = 0 THEN 0 ELSE 1 + BitLenNat(n \div 2)
bit_length(n) == BitLenNat(Abs(n))

RECURSIVE BinNat(_)
BinNat(n) ==
    IF n < 2 THEN CharAt(DecDigits, n)
    ELSE BinNat(n \div 2) \o CharAt(DecDigits, n % 2)

\* format(n, 'b')
format_b(n) == IF n < 0 THEN "-" \o BinNat(0 - n) ELSE BinNat(n)

HexDigits == "0123456789abcdef"
RECURSIVE HexNat(_)
HexNat(n) ==
    IF n < 16 THEN CharAt(HexDigits, n)
    ELSE HexNat(n \div 16) \o CharAt(HexDigits, n % 16)

RECURSIVE Zeros(_)
Zeros(n) == IF n <= 0 THEN "" ELSE "0" \o Zeros(n - 1)

\* "{:02x}".format(n) for n >= 0
format_02x(n) == Zeros(2 - Len(HexNat(n))) \o HexNat(n)

\* ("{0:0" + str(width) + "b}").format(n) for n >= 0
format_0wb(n, width) == Zeros(width - Len(BinNat(n))) \o BinNat(n)

\* s.ljust(width, '0')
ljust0(s, width) == s \o Zeros(width - Len(s))

\* list.remove(x): drops the first element equal to x
RemoveFirst(s, x) ==
    LET i == CHOOSE k \in 1..Len(s) :
                 s[k] = x /\ \A j \in 1..(k - 1) : s[j] # x
    IN  SubSeq(s, 1, i - 1) \o SubSeq(s, i + 1, Len(s))

(***************************************************************************)
(* The register tables and the command schemas.                            *)
(***************************************************************************)
TABLE_B ==
    ("RA" :> "000") @@ ("RB" :> "001") @@ ("RC" :> "010") @@ ("RD" :> "011") @@
    ("RE" :> "100") @@ ("SP" :> "101")

TABLE_C ==
    ("RA" :> "000") @@ ("RB" :> "001") @@ ("RC" :> "010") @@ ("RD" :> "011") @@
    ("RE" :> "100") @@ ("SP" :> "101") @@ ("PC" :> "110") @@ ("CR" :> "111")

TABLE_D ==
    ("RA" :> "000") @@ ("RB" :> "001") @@ ("RC" :> "010") @@ ("RD" :> "011") @@
    ("RE" :> "100") @@ ("SP" :> "101") @@ ("PC" :> "110") @@ ("IR" :> "111")

TABLE_E ==
    ("RA" :> "000") @@ ("RB" :> "001") @@ ("RC" :> "010") @@ ("RD" :> "011") @@
    ("RE" :> "100") @@ ("SP" :> "101") @@ ("ZEROS" :> "110") @@ ("ONES" :> "111")

\* Command.__init__
Command(opcode) ==
    [subcommands |-> <<>>, argument |-> 0, opcode |-> opcode, label |-> 0,
     order |-> <<>>, appended_bits |-> <<>>]

add_sub_command(self, op_dict) ==
    [self EXCEPT !.subcommands = Append(@, op_dict),
                 !.order = Append(@, "SUB_COMMAND_TYPE")]

add_argument(self, length) ==
    [self EXCEPT !.argument = length, !.order = Append(@, "ARGUMENT")]

add_label(self, length) ==
    [self EXCEPT !.label = length, !.order = Append(@, "LABEL")]

append_bits(self, length) ==
    [self EXCEPT !.appended_bits = Append(@, length),
                 !.order = Append(@, "APPEND")]

\* Command(op).add_sub_command(t).add_argument(8)
RegArg(op, t) == add_argument(add_sub_command(Command(op), t), 8)
\* Command(op).add_sub_command(a).add_sub_command(b).append_bits(3).add_sub_command(c)
ThreeReg(op, a, b, c) ==
    add_sub_command(
        append_bits(add_sub_command(add_sub_command(Command(op), a), b), 3), c)
\* Command(op).add_sub_command(a).append_bits(5).add_sub_command(b)
TwoReg(op, a, b) ==
    add_sub_command(append_bits(add_sub_command(Command(op), a), 5), b)

CMD_LOAD == RegArg("00000", TABLE_B)
CMD_LOAD_A == RegArg("00001", TABLE_B)
CMD_STORE == RegArg("00010", TABLE_B)
CMD_STORE_A == RegArg("00011", TABLE_B)
CMD_BRA == add_label(Command("00100000"), 8)
CMD_BRA_Z == add_label(Command("00110000"), 8)
CMD_BRA_N == add_label(Command("00110010"), 8)
CMD_BRA_O == add_label(Command("00110001"), 8)
CMD_BRA_C == add_label(Command("00110011"), 8)
CMD_CALL == add_label(Command("00110100"), 8)
CMD_RETURN == Command("001110000000000")
CMD_HALT == Command("0011110000000000")
CMD_PUSH == add_sub_command(Command("0100"), TABLE_C)
CMD_POP == add_sub_command(Command("0101"), TABLE_C)
CMD_O_PORT == add_sub_command(Command("0110"), TABLE_D)
CMD_I_PORT == add_sub_command(Command("0111"), TABLE_B)
CMD_ADD == ThreeReg("1000", TABLE_E, TABLE_B, TABLE_E)
CMD_SUB == ThreeReg("1001", TABLE_E, TABLE_B, TABLE_E)
CMD_AND == ThreeReg("1010", TABLE_E, TABLE_B, TABLE_E)
CMD_OR == ThreeReg("1011", TABLE_E, TABLE_B, TABLE_E)
CMD_XOR == ThreeReg("1100", TABLE_E, TABLE_B, TABLE_E)
CMD_SHIFT_L == TwoReg("11010", TABLE_E, TABLE_B)
CMD_SHIFT_R == TwoReg("11011", TABLE_E, TABLE_B)
CMD_ROT_L == TwoReg("11100", TABLE_E, TABLE_B)
CMD_ROT_R == TwoReg("11101", TABLE_E, TABLE_B)
CMD_MOVE == TwoReg("11110", TABLE_D, TABLE_B)
CMD_MOVE_I == add_sub_command(add_argument(Command("11111"), 8), TABLE_B)

COMMAND_DICTIONARY ==
    ("LOAD" :> CMD_LOAD) @@ ("LOADA" :> CMD_LOAD_A) @@
    ("STORE" :> CMD_STORE) @@ ("STOREA" :> CMD_STORE_A) @@
    ("BRA" :> CMD_BRA) @@ ("BRAZ" :> CMD_BRA_Z) @@ ("BRAN" :> CMD_BRA_N) @@
    ("BRAO" :> CMD_BRA_O) @@ ("BRAC" :> CMD_BRA_C) @@ ("CALL" :> CMD_CALL) @@
    ("RETURN" :> CMD_RETURN) @@ ("HALT" :> CMD_HALT) @@
    ("PUSH" :> CMD_PUSH) @@ ("POP" :> CMD_POP) @@
    ("OPORT" :> CMD_O_PORT) @@ ("IPORT" :> CMD_I_PORT) @@
    ("ADD" :> CMD_ADD) @@ ("SUB" :> CMD_SUB) @@ ("AND" :> CMD_AND) @@
    ("OR" :> CMD_OR) @@ ("XOR" :> CMD_XOR) @@
    ("SHIFTL" :> CMD_SHIFT_L) @@ ("SHIFTR" :> CMD_SHIFT_R) @@
    ("ROTL" :> CMD_ROT_L) @@ ("ROTR" :> CMD_ROT_R) @@
    ("MOVE" :> CMD_MOVE) @@ ("MOVEI" :> CMD_MOVE_I)

(***************************************************************************)
(* dec2comp8.  Every operation of its try block is total on integers       *)
(* (bit_length, slicing, format), so the except branch with its exit() is  *)
(* never taken and the function returns v for every integer.               *)
(***************************************************************************)
dec2comp8(n) ==
    IF n > 0 THEN SliceTo("00000000", 8 - bit_length(n)) \o format_b(n)
    ELSE IF n < 0
         THEN LET dt == 128 + n
              IN  SliceTo("10000000", 8 - bit_length(dt)) \o format_b(dt)
         ELSE "00000000"

(***************************************************************************)
(* The field formatters and Command.format.  A result is a record          *)
(* [raised, v]: raised names the exception that left the function, "" if   *)
(* it returned v.                                                          *)
(***************************************************************************)
Returned(s) == [raised |-> "", v |-> s]
Raised(e) == [raised |-> e, v |-> ""]

format_sub_command(command, argument, current_argument) ==
    LET table == command.subcommands[current_argument + 1]
    IN  IF upper(argument) \in DOMAIN table
        THEN Returned(table[upper(argument)])
        ELSE Raised("KeyError")

format_argument(command, argument) ==
    IF int(argument).ok
    THEN Returned(dec2comp8(int(argument).n))
    ELSE Raised("ValueError")

\* format_label as it would be with label.get(argument, 0): a missing label
\* resolves to address 0 instead of raising
format_label_default(command, argument, label) ==
    IF argument \in DOMAIN label
    THEN Returned(format_0wb(label[argument], command.label))
    ELSE Returned(format_0wb(0, command.label))

format_label(command, argument, label) ==
    IF argument \in DOMAIN label
    THEN Returned(format_0wb(label[argument], command.label))
    ELSE Raised("KeyError")

\* One field of the schema: the body of the for loop of Command.format.
\* current_sub_command is passed on unchanged: the loop never increments it.
FormatField(self, command_type, args, lbls, current_indices, current_sub_command, current_append) ==
    IF command_type = "APPEND"
    THEN Returned(Zeros(self.appended_bits[current_append + 1]))
    ELSE IF current_indices >= Len(args)
    THEN Raised("IndexError")
    ELSE IF command_type = "SUB_COMMAND_TYPE"
    THEN format_sub_command(self, args[current_indices + 1], current_sub_command)
    ELSE IF command_type = "ARGUMENT"
    THEN format_argument(self, args[current_indices + 1])
    ELSE format_label(self, args[current_indices + 1], lbls)

RECURSIVE FormatLoop(_, _, _, _, _, _, _, _)
FormatLoop(self, args, lbls, k, result, current_indices, current_sub_command, current_append) ==
    IF k > Len(self.order) THEN Returned(result)
    ELSE LET command_type == self.order[k]
             f == FormatField(self, command_type, args, lbls, current_indices,
                              current_sub_command, current_append)
         IN  IF f.raised # "" THEN f
             ELSE IF command_type = "APPEND"
             THEN FormatLoop(self, args, lbls, k + 1, result \o f.v,
                             current_indices, current_sub_command,
                             current_append + 1)
             ELSE FormatLoop(self, args, lbls, k + 1, result \o f.v,
                             current_indices + 1, current_sub_command,
                             current_append)

\* Command.format(self, args, labels)
format(self, args, lbls) == FormatLoop(self, args, lbls, 1, self.opcode, 0, 0, 0)

(***************************************************************************)
(* A for loop is the composition of its iterations: Pass1Range and         *)
(* Pass2Range apply the loop body to the positions lo..hi in order,        *)
(* splitting the range in halves.                                          *)
(*                                                                         *)
(* pass1.  The for loop walks the list by position while the body removes  *)
(* from the same list: the iterator stops as soon as its position reaches  *)
(* the current length of the list, which is never more than the length at  *)
(* the start.  i is the iterator's 0-based position.                       *)
(***************************************************************************)
Pass1Body(st, i) ==
    IF i >= Len(st.tokens) THEN st
    ELSE LET label == st.tokens[i + 1]
         IN  IF endswith_colon(label[1])
             THEN [tokens |-> RemoveFirst(st.tokens, label),
                   dictionary |->
                       (replace_colon(label[1]) :> st.line_number)
                           @@ st.dictionary,
                   line_number |-> st.line_number + 1]
             ELSE [st EXCEPT !.line_number = @ + 1]

RECURSIVE Pass1Range(_, _, _)
Pass1Range(st, lo, hi) ==
    IF lo > hi \/ lo >= Len(st.tokens) THEN st
    ELSE IF lo = hi THEN Pass1Body(st, lo)
    ELSE Pass1Range(Pass1Range(st, lo, (lo + hi) \div 2),
                    (lo + hi) \div 2 + 1, hi)

\* the list as pass1 leaves it, and the dictionary it returns
pass1(toks) ==
    Pass1Range([tokens |-> toks, dictionary |-> <<>>, line_number |-> 0],
               0, Len(toks) - 1)

(***************************************************************************)
(* pass2.  The loop state carries the list of lines as line.pop(0) left    *)
(* it, and raised # "" once Command.format raised: then the remaining      *)
(* iterations do not run and nothing is returned.                          *)
(***************************************************************************)
instruction_size == 16
FillDepth == 256

Pass2Body(st, lbls, i) ==
    IF st.raised # "" THEN st
    ELSE LET line == st.tokens[i] IN
         IF ~(upper(line[1]) \in DOMAIN COMMAND_DICTIONARY) THEN st
         ELSE LET command == COMMAND_DICTIONARY[upper(line[1])]
                  popped == [st.tokens EXCEPT ![i] = Tail(line)]
                  r == format(command, Tail(line), lbls)
              IN  IF r.raised # ""
                  THEN [st EXCEPT !.raised = r.raised, !.tokens = popped]
                  ELSE [raised |-> "",
                        tokens |-> popped,
                        argument_code |->
                            Append(st.argument_code,
                                   format_02x(st.current_argument) \o " : "
                                       \o ljust0(r.v, instruction_size)),
                        current_argument |-> st.current_argument + 1]

RECURSIVE Pass2Range(_, _, _, _)
Pass2Range(st, lbls, lo, hi) ==
    IF lo > hi \/ st.raised # "" THEN st
    ELSE IF lo = hi THEN Pass2Body(st, lbls, lo)
    ELSE Pass2Range(Pass2Range(st, lbls, lo, (lo + hi) \div 2), lbls,
                    (lo + hi) \div 2 + 1, hi)

pass2(toks, lbls) ==
    LET st == Pass2Range([raised |-> "", tokens |-> toks,
                          argument_code |-> <<>>, current_argument |-> 0],
                         lbls, 1, Len(toks))
    IN  IF st.raised = "" /\ st.current_argument # FillDepth
        THEN [st EXCEPT !.argument_code =
                  Append(@, "[" \o format_02x(st.current_argument)
                                \o "..FF] : 11111111111111111")]
        ELSE st

(***************************************************************************)
(* main, from the return of tokenize on.                                   *)
(***************************************************************************)
\* for instruction in argument_code: f.write(instruction + ";\n")
WriteInstructions(f, code) ==
    f \o [k \in 1..Len(code) |-> code[k] \o ";\n"]

MifHeader ==
    <<"DEPTH = 256;\n", "WIDTH = 16;\n", "ADDRESS_RADIX = HEX;\n",
      "DATA_RADIX = BIN;\n", "CONTENT\n", "BEGIN\n">>

\* labels = pass1(tokens)
Pass1 ==
    /\ pc = "tokenized"
    /\ tokens' = pass1(tokens).tokens
    /\ labels' = pass1(tokens).dictionary
    /\ pc' = "pass1done"
    /\ UNCHANGED <<source, argument_code, mif, mif_open, d, v>>

\* argument_code = pass2(tokens, labels); an exception ends the run
Pass2 ==
    /\ pc = "pass1done"
    /\ LET r == pass2(tokens, labels)
       IN  /\ tokens' = r.tokens
           /\ IF r.raised # ""
              THEN pc' = "failed" /\ UNCHANGED argument_code
              ELSE pc' = "pass2done" /\ argument_code' = r.argument_code
    /\ UNCHANGED <<source, labels, mif, mif_open, d, v>>

\* f = open(..., "w"); the writes; f.close()
WriteMif ==
    /\ pc = "pass2done"
    /\ mif_open' = TRUE
    /\ mif' = Append(WriteInstructions(MifHeader, argument_code), "END")
    /\ pc' = "written"
    /\ UNCHANGED <<source, tokens, labels, argument_code, d, v>>

\* a direct call dec2comp8(d, linenum)
Dec2Comp8Call ==
    /\ pc = "enc_call"
    /\ v' = dec2comp8(d)
    /\ pc' = "enc_done"
    /\ UNCHANGED <<source, tokens, labels, argument_code, mif, mif_open, d>>

Next == Pass1 \/ Pass2 \/ WriteMif

NextEnc == Dec2Comp8Call

(***************************************************************************)
(* Inputs.  A token line is a non-empty sequence of lower-case words, as   *)
(* tokenize produces them.                                                 *)
(***************************************************************************)
SeqsUpTo(S, n) == UNION {[1..k -> S] : k \in 0..n}

\* lines of the general specification: two labels, instructions that use
\* them, a label that is never defined, a word that is no mnemonic
Lines ==
    {<<"a:">>, <<"b:">>, <<"halt">>, <<"bra", "a">>, <<"braz", "b">>,
     <<"call", "c">>, <<"foo">>}

Mnemonics ==
    {"load", "loada", "store", "storea", "bra", "braz", "bran", "brao", "brac",
     "call", "return", "halt", "push", "pop", "oport", "iport", "add", "sub",
     "and", "or", "xor", "shiftl", "shiftr", "rotl", "rotr", "move", "movei"}

\* operand words: registers of the different tables, immediates in and out
\* of the signed 8-bit range, a defined and an undefined label
Operands == {"ra", "pc", "ones", "5", "-128", "300", "a", "zz"}

MaxOperands == 3

InstructionLines ==
    {<<m>> \o args : m \in Mnemonics, args \in SeqsUpTo(Operands, MaxOperands)}

PipelineInit(programs) ==
    /\ source \in programs
    /\ tokens = source
    /\ labels = <<>>
    /\ argument_code = <<>>
    /\ mif = <<>>
    /\ mif_open = FALSE
    /\ pc = "tokenized"
    /\ d = 0
    /\ v = ""

\* every program of at most MaxLen lines
Init == PipelineInit(SeqsUpTo(Lines, MaxLen))

\* one instruction of any mnemonic, followed by the definition of label a
InitLine == PipelineInit({<<l>> \o <<<<"a:">>>> : l \in InstructionLines})

\* programs of n halt instructions
Halts(n) == [k \in 1..n |-> <<"halt">>]
InitLong == PipelineInit({Halts(n) : n \in 0..MaxProg})

InitEnc ==
    /\ source = <<>>
    /\ tokens = <<>>
    /\ labels = <<>>
    /\ argument_code = <<>>
    /\ mif = <<>>
    /\ mif_open = FALSE
    /\ pc = "enc_call"
    /\ d \in (0 - MaxImm)..MaxImm
    /\ v = ""

Spec == Init /\ [][Next]_vars
SpecLine == InitLine /\ [][Next]_vars
SpecLong == InitLong /\ [][Next]_vars
SpecEnc == InitEnc /\ [][NextEnc]_vars

(***************************************************************************)
(* Vocabulary of the properties.                                           *)
(***************************************************************************)
Finished == pc \in {"pass2done", "written"}

IsLabelLine(line) == endswith_colon(line[1])
LabelName(line) == replace_colon(line[1])
IsKnown(line) == upper(line[1]) \in DOMAIN COMMAND_DICTIONARY
CommandOf(line) == COMMAND_DICTIONARY[upper(line[1])]

LabelLinesOf(src) == {i \in 1..Len(src) : IsLabelLine(src[i])}

DistinctLabelNames(src) ==
    \A i, j \in LabelLinesOf(src) :
        i # j => LabelName(src[i]) # LabelName(src[j])

\* number of lines before line i that are not label definitions
NonLabelBefore(src, i) ==
    Cardinality({j \in 1..(i - 1) : ~IsLabelLine(src[j])})

\* number of lines before line i for which pass2 emits an instruction
EmittedBefore(src, i) ==
    Cardinality({j \in 1..(i - 1) : IsKnown(src[j])})

NonLabelLines(src) == SelectSeq(src, LAMBDA line : ~IsLabelLine(line))

\* the parts of an entry "<address> : <bits>" or "[<address>..FF] : <bits>"
FirstSpace(e) ==
    CHOOSE k \in 1..Len(e) :
        CharAt(e, k - 1) = " " /\ \A j \in 1..(k - 1) : CharAt(e, j - 1) # " "
IsFill(e) == Head(e) = "["
AddrPart(e) == SubSeq(e, 1, FirstSpace(e) - 1)
BitsPart(e) == SubSeq(e, FirstSpace(e) + 3, Len(e))

RECURSIVE AllBits(_)
AllBits(s) == s = "" \/ (Head(s) \in {"0", "1"} /\ AllBits(Tail(s)))

RECURSIVE BinVal(_, _)
BinVal(s, acc) ==
    IF s = "" THEN acc ELSE BinVal(Tail(s), 2 * acc + DigitVal(Head(s)))

\* the two's-complement reading of an 8-bit string
TwosDecode(s) == IF BinVal(s, 0) >= 128 THEN BinVal(s, 0) - 256 ELSE BinVal(s, 0)

InstructionEntries == {k \in 1..Len(argument_code) : ~IsFill(argument_code[k])}
FillEntries == {k \in 1..Len(argument_code) : IsFill(argument_code[k])}

\* declared width of a schema: the opcode and every declared field
RECURSIVE FieldWidths(_, _, _)
FieldWidths(self, k, current_append) ==
    IF k > Len(self.order) THEN 0
    ELSE IF self.order[k] = "APPEND"
    THEN self.appended_bits[current_append + 1]
             + FieldWidths(self, k + 1, current_append + 1)
    ELSE (IF self.order[k] = "SUB_COMMAND_TYPE" THEN 3
          ELSE IF self.order[k] = "ARGUMENT" THEN self.argument
          ELSE self.label)
             + FieldWidths(self, k + 1, current_append)

SchemaWidth(self) == Len(self.opcode) + FieldWidths(self, 1, 0)

\* positions p of the schema's order that are register fields
RegisterFields(self) ==
    {p \in 1..Len(self.order) : self.order[p] = "SUB_COMMAND_TYPE"}
\* which register field (1-based) the field at position p is
RegisterIndex(self, p) == Cardinality({q \in RegisterFields(self) : q <= p})
\* which operand (1-based) the field at position p consumes
OperandIndex(self, p) ==
    Cardinality({q \in 1..p : self.order[q] # "APPEND"})

\* every register operand of the line is in the table of its own position
OperandsInOwnTables(line) ==
    LET self == CommandOf(line)
        args == Tail(line)
    IN  \A p \in RegisterFields(self) :
            /\ OperandIndex(self, p) <= Len(args)
            /\ upper(args[OperandIndex(self, p)])
                   \in DOMAIN self.subcommands[RegisterIndex(self, p)]

\* the line has a label field and an operand for it
IsLabelRef(line) ==
    IsKnown(line) /\ CommandOf(line).order = <<"LABEL">> /\ Len(line) >= 2

\* some label operand of the program has no entry in the label table
UndefinedLabelRef ==
    \E i \in 1..Len(source) :
        IsLabelRef(source[i]) /\ ~(source[i][2] \in DOMAIN labels)

(***************************************************************************)
(* The claims.                                                             *)
(***************************************************************************)

\* C1: when the label names of the input are distinct, the table pass1
\* returns holds every label defined in the input and maps it to the number
\* of non-label lines before its definition, consecutive label lines
\* included.
C1_LabelTableComplete ==
    (pc \in {"pass1done", "pass2done", "written", "failed"}
        /\ DistinctLabelNames(source))
    => \A i \in LabelLinesOf(source) :
           /\ LabelName(source[i]) \in DOMAIN labels
           /\ labels[LabelName(source[i])] = NonLabelBefore(source, i)

\* C2: after pass1 the token list is exactly the input's non-label lines in
\* their order: no label line survives, no instruction line is dropped.
C2_LabelLinesRemoved ==
    pc = "pass1done" => tokens = NonLabelLines(source)

\* C3: the bit string of every instruction entry pass2 emits is exactly 16
\* characters, each '0' or '1'.
C3_SixteenBits ==
    Finished
    => \A k \in InstructionEntries :
           /\ Len(BitsPart(argument_code[k])) = instruction_size
           /\ AllBits(BitsPart(argument_code[k]))

\* C4: for every d in -128..127, dec2comp8(d) is a string of exactly 8
\* binary digits whose two's-complement reading is d.
C4_RoundTrip ==
    (pc = "enc_done" /\ d >= -128 /\ d <= 127)
    => (Len(v) = 8 /\ AllBits(v) /\ TwosDecode(v) = d)

\* C5: an instruction is encoded only if each register operand is in the
\* register table declared for its own field position.
C5_OwnRegisterTable ==
    Finished
    => \A i \in 1..Len(source) :
           IsKnown(source[i]) => OperandsInOwnTables(source[i])

\* C6: for every mnemonic that is encoded, the opcode length plus the
\* declared field widths is exactly 16, before the padding of pass2.
C6_SchemaWidth ==
    Finished
    => \A i \in 1..Len(source) :
           IsKnown(source[i]) => SchemaWidth(CommandOf(source[i])) = 16

\* C7: dec2comp8 returns no bit string for a value outside -128..127.
C7_OutOfRangeFails ==
    pc = "enc_done" => (d >= -128 /\ d <= 127)

\* C8: if a label operand names a label without an entry in the label
\* table, the run never gets past pass2: pass2 returns no entry list and
\* the output file is neither opened nor written.
C8_UndefinedLabelAborts ==
    (pc # "tokenized" /\ UndefinedLabelRef)
    => /\ pc \in {"pass1done", "failed"}
       /\ argument_code = <<>>
       /\ ~mif_open
       /\ mif = <<>>

\* a run that failed in pass2 on a program with an undefined label operand
C8_Witness == pc = "failed" /\ UndefinedLabelRef

\* C9: the instruction entries carry the addresses 0..k-1 in order, each a
\* two-digit hexadecimal number within 0..255, and the fill entry is there
\* exactly when fewer than 256 instructions were emitted, as the last entry,
\* starting at address k.
C9_AddressesAndFill ==
    Finished
    => LET k == Cardinality(InstructionEntries)
       IN  /\ InstructionEntries = 1..k
           /\ \A j \in 1..k :
                  /\ j - 1 <= 255
                  /\ AddrPart(argument_code[j]) = format_02x(j - 1)
                  /\ Len(AddrPart(argument_code[j])) = 2
           /\ (FillEntries # {}) <=> (k < FillDepth)
           /\ FillEntries # {}
                  => /\ FillEntries = {Len(argument_code)}
                     /\ AddrPart(argument_code[Len(argument_code)])
                            = "[" \o format_02x(k) \o "..FF]"

\* C10: when both passes complete, every label of the table is mapped to
\* the address of the first instruction pass2 emits from a line after the
\* label's definition (the number of emitted instructions if there is
\* none), lines that pass2 skips included.
C10_PassesAgree ==
    Finished
    => \A n \in DOMAIN labels :
           \E i \in LabelLinesOf(source) :
               /\ LabelName(source[i]) = n
               /\ labels[n] = EmittedBefore(source, i)

====
